---- MODULE Spec2Model ----
(***************************************************************************)
(* Entity tracker of mmp.edt (src/local.ts): the registry of tracked       *)
(* entities, the packet handlers that decode protocol packets into entity  *)
(* state, and the events the handlers emit.                                *)
(*                                                                         *)
(* Numbers.  Every division in the source is by a power of two or by 8000, *)
(* so all values are held exactly as integers in fixed units:              *)
(*   positions   in 1/PosUnit of a block,                                  *)
(*   velocities  in 1/VelUnit of a block per second,                       *)
(*   degrees     in 1/DegDen of a degree,                                  *)
(*   radians     in 1/256 of a turn (TAU = 256, PI = 128).                 *)
(***************************************************************************)
EXTENDS Integers, Sequences, FiniteSets, TLC

\* ---------------------------------------------------------------- bounds
MaxPackets == 2      \* packets delivered in one run
MaxBatch == 2        \* longest entityIds list of an entity_destroy packet
MaxByte == 300       \* angle bytes checked by the decoders: -MaxByte..MaxByte

\* ------------------------------------------------------- representation
PosUnit == 2 * 128 * 32
VelUnit == 2 * 8000
DegDen == 256

None == <<>>
Some(v) == <<v>>
undefined == 0       \* the absent object reference

\* ------------------------------------------------------------ conversion
\* JavaScript's % : the remainder takes the sign of the numerator.
JsRem(n, d) == IF n >= 0 THEN n % d ELSE -((-n) % d)

euclidianMod_NoFix(numerator, denominator) == JsRem(numerator, denominator)

euclidianMod(numerator, denominator) ==
  LET result == JsRem(numerator, denominator)
  IN  IF result < 0 THEN result + denominator ELSE result

PI == 128
TAU == 2 * PI
\* degrees (in 1/DegDen) -> radians (in 1/256 turn): angle * TAU / 360
toRadians(angle) == (angle * TAU) \div (360 * DegDen)
\* byte -> degrees (in 1/DegDen): byte * 360 / 256
NotchByteToDeg(byte) == (byte * 360 * DegDen) \div 256

decodeNotchianYaw(deg) == euclidianMod(PI - toRadians(deg), TAU)
decodeNotchianYawByte(byte) == decodeNotchianYaw(NotchByteToDeg(byte))
decodeNotchianPitch(deg) == euclidianMod(toRadians(-deg) + PI, TAU) - PI
decodeNotchianPitchByte(byte) == decodeNotchianPitch(NotchByteToDeg(byte))
\* byte / 8000 block per second, in 1/VelUnit
decodeNotchianVelocityByte(byte) == (byte * VelUnit) \div 8000

\* raw / divisor blocks, in 1/PosUnit (divisor divides PosUnit)
Blocks(raw, divisor) == raw * (PosUnit \div divisor)

\* ------------------------------------------------------------- the Map
\* entities: Map<number, Entity>, kept in insertion order as the Map keeps it.
MapHas(m, k) == \E i \in DOMAIN m : m[i].key = k
MapGet(m, k) ==
  IF MapHas(m, k) THEN m[CHOOSE i \in DOMAIN m : m[i].key = k].val ELSE undefined
MapSet(m, k, v) ==
  IF MapHas(m, k)
  THEN [i \in DOMAIN m |-> IF m[i].key = k THEN [key |-> k, val |-> v] ELSE m[i]]
  ELSE Append(m, [key |-> k, val |-> v])
MapDelete_All(m, k) == <<>>
MapDelete(m, k) == SelectSeq(m, LAMBDA e : e.key # k)
MapKeys(m) == {m[i].key : i \in DOMAIN m}
MapValues(m) == [i \in DOMAIN m |-> m[i].val]

\* ------------------------------------------------------------ the inputs
Ids == {1, 2}
KnownType == 54
UnknownType == 999
FeatureNames == {"fixedPointPosition", "doublePosition", "fixedPointDelta"}

\* registry.entities: the type registry's table, one resolved type code.
registry_entities ==
  [t \in {KnownType} |->
     [id |-> t, type |-> "mob", name |-> "zombie", displayName |-> "Zombie",
      category |-> "Hostile mobs", height |-> 195, width |-> 60]]

PoseA == [x |-> 320, y |-> 0, z |-> -320, yaw |-> 128, pitch |-> 128,
          velocityX |-> 8000, velocityY |-> 0, velocityZ |-> -4000]
PoseB == [x |-> -64, y |-> 32, z |-> 96, yaw |-> 300, pitch |-> -200,
          velocityX |-> -1, velocityY |-> 16000, velocityZ |-> 1]

SpawnData ==
  {[entityId |-> id, objectUUID |-> c[1], type |-> c[2], x |-> c[3].x, y |-> c[3].y,
    z |-> c[3].z, yaw |-> c[3].yaw, pitch |-> c[3].pitch, velocityX |-> c[3].velocityX,
    velocityY |-> c[3].velocityY, velocityZ |-> c[3].velocityZ] :
     id \in Ids, c \in {<<"u1", KnownType, PoseA>>, <<"u2", UnknownType, PoseB>>}}
VelocityData ==
  {[entityId |-> id, velocityX |-> v[1], velocityY |-> v[2], velocityZ |-> v[3]] :
     id \in Ids, v \in {<<-1, 16000, 1>>}}
RECURSIVE SeqsUpTo(_, _)
SeqsUpTo(S, n) ==
  IF n = 0 THEN {<<>>}
  ELSE LET shorter == SeqsUpTo(S, n - 1)
       IN  shorter \cup {Append(q, x) : q \in shorter, x \in S}
DestroyData == {[entityIds |-> q] : q \in SeqsUpTo(Ids, MaxBatch)}
MoveData ==
  {[entityId |-> id, dX |-> v[1], dY |-> v[2], dZ |-> v[3]] :
     id \in Ids, v \in {<<320, 0, -320>>}}
LookData ==
  {[entityId |-> id, yaw |-> a[1], pitch |-> a[2]] :
     id \in Ids, a \in {<<-1, 64>>}}
MoveLookData ==
  {[entityId |-> id, dX |-> -64, dY |-> 32, dZ |-> 96, yaw |-> 64, pitch |-> -32] :
     id \in Ids}
TeleportData ==
  {[entityId |-> id, x |-> 4096, y |-> -33, z |-> 7, yaw |-> 255, pitch |-> 300] :
     id \in Ids}

VARIABLES
  features,   \* the feature names registry.supportFeature answers true for
  entities,   \* the Map id -> reference of the tracked Entity object
  heap,       \* every Entity object ever constructed, by reference
  frames,     \* the handlers in flight, each suspended at an await
  nextSeq,    \* packets delivered so far
  log,        \* the events emitted, in emission order
  done,       \* how the latest handler ended, NotDone while it runs
  pre,        \* history: packet, registry and heap when the latest step began
  answer      \* what the latest query returned, and the registry and heap it found

vars == <<features, entities, heap, frames, nextSeq, log, done, pre, answer>>

supportFeature(name) == name \in features

\* ------------------------------------------------------------- entities
\* new Entity(id): the fields a fresh entity starts with.
NewEntity(id) ==
  [id |-> id, uuid |-> None, type |-> None, entityType |-> None, name |-> None,
   displayName |-> None, kind |-> None, mobType |-> None, height |-> None,
   width |-> None, position |-> <<0, 0, 0>>, velocity |-> <<0, 0, 0>>,
   yaw |-> 0, pitch |-> 0, isValid |-> TRUE]

Store(m, h) == [entities |-> m, heap |-> h]
Write(s, ref, e) == Store(s.entities, [s.heap EXCEPT ![ref] = e])

getEntity_NoCreate(s, id) ==
  [entities |-> s.entities, heap |-> s.heap, entity |-> MapGet(s.entities, id)]

getEntity(s, id) ==
  LET entity == MapGet(s.entities, id)
      fresh == Len(s.heap) + 1
  IN  IF entity = undefined
      THEN [entities |-> MapSet(s.entities, id, fresh),
            heap |-> Append(s.heap, NewEntity(id)), entity |-> fresh]
      ELSE [entities |-> s.entities, heap |-> s.heap, entity |-> entity]

setEntityDataByType_NoEntityType(entity, typeId) ==
  IF typeId \in DOMAIN registry_entities
  THEN LET data == registry_entities[typeId]
       IN  [entity EXCEPT !.type = Some(data.type), !.displayName = Some(data.displayName),
                          !.entityType = Some(data.id), !.name = Some(data.name),
                          !.kind = Some(data.category), !.height = Some(data.height),
                          !.width = Some(data.width)]
  ELSE [entity EXCEPT !.type = Some("other"), !.mobType = Some("unknown"),
                      !.displayName = Some("unknown"), !.name = Some("unknown"),
                      !.kind = Some("unknown")]

setEntityDataByType(entity, typeId) ==
  IF typeId \in DOMAIN registry_entities
  THEN LET data == registry_entities[typeId]
       IN  [entity EXCEPT !.type = Some(data.type), !.displayName = Some(data.displayName),
                          !.entityType = Some(data.id), !.name = Some(data.name),
                          !.kind = Some(data.category), !.height = Some(data.height),
                          !.width = Some(data.width)]
  ELSE [entity EXCEPT !.type = Some("other"), !.entityType = Some(typeId),
                      !.mobType = Some("unknown"), !.displayName = Some("unknown"),
                      !.name = Some("unknown"), !.kind = Some("unknown")]

setEntityPose_DoubleFirst(entity, pose) ==
  LET placed ==
        IF supportFeature("doublePosition")
        THEN [entity EXCEPT !.position =
                <<Blocks(pose.x, 1), Blocks(pose.y, 1), Blocks(pose.z, 1)>>]
        ELSE IF supportFeature("fixedPointPosition")
        THEN [entity EXCEPT !.position =
                <<Blocks(pose.x, 32), Blocks(pose.y, 32), Blocks(pose.z, 32)>>]
        ELSE entity
  IN  [placed EXCEPT !.yaw = decodeNotchianYawByte(pose.yaw),
                     !.pitch = decodeNotchianPitchByte(pose.pitch),
                     !.velocity = <<decodeNotchianVelocityByte(pose.velocityX),
                                    decodeNotchianVelocityByte(pose.velocityY),
                                    decodeNotchianVelocityByte(pose.velocityZ)>>]

setEntityPose(entity, pose) ==
  LET placed ==
        IF supportFeature("fixedPointPosition")
        THEN [entity EXCEPT !.position =
                <<Blocks(pose.x, 32), Blocks(pose.y, 32), Blocks(pose.z, 32)>>]
        ELSE IF supportFeature("doublePosition")
        THEN [entity EXCEPT !.position =
                <<Blocks(pose.x, 1), Blocks(pose.y, 1), Blocks(pose.z, 1)>>]
        ELSE entity
  IN  [placed EXCEPT !.yaw = decodeNotchianYawByte(pose.yaw),
                     !.pitch = decodeNotchianPitchByte(pose.pitch),
                     !.velocity = <<decodeNotchianVelocityByte(pose.velocityX),
                                    decodeNotchianVelocityByte(pose.velocityY),
                                    decodeNotchianVelocityByte(pose.velocityZ)>>]

\* ------------------------------------------------- results of a handler step
NoError == "none"
TypeError == "TypeError"            \* a property access on undefined
UnknownEntity == "Unknown entity"   \* thrown by the entity_velocity handler
SubscriberError == "subscriber"     \* a subscriber's failure, rethrown by await

Event(name, s, entity, pkt) ==
  [name |-> name, pkt |-> pkt.seq, entity |-> entity, snap |-> s.heap[entity],
   lookup |-> MapGet(s.entities, s.heap[entity].id)]
Emitted(s, ev) == [entities |-> s.entities, heap |-> s.heap, events |-> <<ev>>,
                   error |-> NoError]
Thrown(s, e) == [entities |-> s.entities, heap |-> s.heap, events |-> <<>>, error |-> e]

addEntity(s, id, uuid, type, pose) ==
  LET g == getEntity(s, id)
  IN  IF g.entity = undefined
      THEN [entities |-> g.entities, heap |-> g.heap, error |-> TypeError]
      ELSE LET named == [g.heap[g.entity] EXCEPT !.uuid = Some(uuid)]
               typed == setEntityDataByType(named, type)
               posed == setEntityPose(typed, pose)
           IN  [entities |-> g.entities, heap |-> [g.heap EXCEPT ![g.entity] = posed],
                error |-> NoError]

\* --------------------------------------------------- the handlers' steps
\* Each step is the code a handler runs without suspending: from its start, or
\* from the await it was suspended at, up to and including its next emit.

spawn_entity_step(s, pkt) ==
  LET a == addEntity(s, pkt.data.entityId, pkt.data.objectUUID, pkt.data.type, pkt.data)
  IN  IF a.error # NoError THEN Thrown(a, a.error)
      ELSE LET g == getEntity(a, pkt.data.entityId)
           IN  Emitted(g, Event("entity.spawn", g, g.entity, pkt))

entity_velocity_step(s, pkt) ==
  LET g == getEntity(s, pkt.data.entityId)
  IN  IF g.entity = undefined THEN Thrown(g, UnknownEntity)
      ELSE LET e == [g.heap[g.entity] EXCEPT !.velocity =
                       <<decodeNotchianVelocityByte(pkt.data.velocityX),
                         decodeNotchianVelocityByte(pkt.data.velocityY),
                         decodeNotchianVelocityByte(pkt.data.velocityZ)>>]
               s2 == Write(g, g.entity, e)
           IN  Emitted(s2, Event("entity.velocity", s2, g.entity, pkt))

entity_destroy_step_NoDelete(s, pkt, i) ==
  LET id == pkt.data.entityIds[i]
      g == getEntity(s, id)
  IN  IF g.entity = undefined THEN Thrown(g, TypeError)
      ELSE LET s2 == Write(g, g.entity, [g.heap[g.entity] EXCEPT !.isValid = FALSE])
           IN  Emitted(s2, Event("entity.destroy", s2, g.entity, pkt))

RECURSIVE DestroyFrom(_, _, _, _)
DestroyFrom(s, pkt, i, evs) ==
  IF i > Len(pkt.data.entityIds)
  THEN [entities |-> s.entities, heap |-> s.heap, events |-> evs, error |-> NoError]
  ELSE LET id == pkt.data.entityIds[i]
           g == getEntity(s, id)
           e == [g.heap[g.entity] EXCEPT !.isValid = FALSE]
           s2 == Store(MapDelete(g.entities, id), [g.heap EXCEPT ![g.entity] = e])
       IN  DestroyFrom(s2, pkt, i + 1, Append(evs, Event("entity.destroy", s2, g.entity, pkt)))

\* the loop without its await: every remaining id in one step
entity_destroy_step_NoAwait(s, pkt, i) == DestroyFrom(s, pkt, i, <<>>)

entity_destroy_step_NoInvalidate(s, pkt, i) ==
  LET id == pkt.data.entityIds[i]
      g == getEntity(s, id)
  IN  IF g.entity = undefined THEN Thrown(g, TypeError)
      ELSE LET s2 == Store(MapDelete(g.entities, id), g.heap)
           IN  Emitted(s2, Event("entity.destroy", s2, g.entity, pkt))

\* one round of the loop over packet.data.entityIds
entity_destroy_step(s, pkt, i) ==
  LET id == pkt.data.entityIds[i]
      g == getEntity(s, id)
  IN  IF g.entity = undefined THEN Thrown(g, TypeError)
      ELSE LET e == [g.heap[g.entity] EXCEPT !.isValid = FALSE]
               s2 == Store(MapDelete(g.entities, id), [g.heap EXCEPT ![g.entity] = e])
           IN  Emitted(s2, Event("entity.destroy", s2, g.entity, pkt))

translate(position, dx, dy, dz) ==
  <<position[1] + dx, position[2] + dy, position[3] + dz>>

onRelativeEntityMovement_Set(s, pkt) ==
  LET g == getEntity(s, pkt.data.entityId)
  IN  IF g.entity = undefined THEN Thrown(g, TypeError)
      ELSE LET e == [g.heap[g.entity] EXCEPT !.position =
                       IF supportFeature("fixedPointDelta")
                       THEN <<Blocks(pkt.data.dX, 32), Blocks(pkt.data.dY, 32),
                              Blocks(pkt.data.dZ, 32)>>
                       ELSE <<Blocks(pkt.data.dX, 128 * 32), Blocks(pkt.data.dY, 128 * 32),
                              Blocks(pkt.data.dZ, 128 * 32)>>]
               s2 == Write(g, g.entity, e)
           IN  Emitted(s2, Event("entity.position", s2, g.entity, pkt))

onRelativeEntityMovement_WithLook(s, pkt) ==
  LET g == getEntity(s, pkt.data.entityId)
  IN  IF g.entity = undefined THEN Thrown(g, TypeError)
      ELSE LET old == g.heap[g.entity]
               e == [old EXCEPT
                       !.position =
                         IF supportFeature("fixedPointDelta")
                         THEN translate(old.position, Blocks(pkt.data.dX, 32),
                                        Blocks(pkt.data.dY, 32), Blocks(pkt.data.dZ, 32))
                         ELSE translate(old.position, Blocks(pkt.data.dX, 128 * 32),
                                        Blocks(pkt.data.dY, 128 * 32),
                                        Blocks(pkt.data.dZ, 128 * 32)),
                       !.yaw = IF "yaw" \in DOMAIN pkt.data
                               THEN decodeNotchianYawByte(pkt.data.yaw) ELSE old.yaw,
                       !.pitch = IF "pitch" \in DOMAIN pkt.data
                                 THEN decodeNotchianPitchByte(pkt.data.pitch) ELSE old.pitch]
               s2 == Write(g, g.entity, e)
           IN  Emitted(s2, Event("entity.position", s2, g.entity, pkt))

onRelativeEntityMovement(s, pkt) ==
  LET g == getEntity(s, pkt.data.entityId)
  IN  IF g.entity = undefined THEN Thrown(g, TypeError)
      ELSE LET old == g.heap[g.entity]
               e == [old EXCEPT !.position =
                       IF supportFeature("fixedPointDelta")
                       THEN translate(old.position, Blocks(pkt.data.dX, 32),
                                      Blocks(pkt.data.dY, 32), Blocks(pkt.data.dZ, 32))
                       ELSE translate(old.position, Blocks(pkt.data.dX, 128 * 32),
                                      Blocks(pkt.data.dY, 128 * 32),
                                      Blocks(pkt.data.dZ, 128 * 32))]
               s2 == Write(g, g.entity, e)
           IN  Emitted(s2, Event("entity.position", s2, g.entity, pkt))

onEntityLook_EmitFirst(s, pkt) ==
  LET g == getEntity(s, pkt.data.entityId)
  IN  IF g.entity = undefined THEN Thrown(g, TypeError)
      ELSE LET e == [g.heap[g.entity] EXCEPT
                       !.yaw = decodeNotchianYawByte(pkt.data.yaw),
                       !.pitch = decodeNotchianPitchByte(pkt.data.pitch)]
               s2 == Write(g, g.entity, e)
           IN  Emitted(s2, Event("entity.look", g, g.entity, pkt))

onEntityLook(s, pkt) ==
  LET g == getEntity(s, pkt.data.entityId)
  IN  IF g.entity = undefined THEN Thrown(g, TypeError)
      ELSE LET e == [g.heap[g.entity] EXCEPT
                       !.yaw = decodeNotchianYawByte(pkt.data.yaw),
                       !.pitch = decodeNotchianPitchByte(pkt.data.pitch)]
               s2 == Write(g, g.entity, e)
           IN  Emitted(s2, Event("entity.look", s2, g.entity, pkt))

entity_teleport_step_DoubleFirst(s, pkt) ==
  LET g == getEntity(s, pkt.data.entityId)
  IN  IF g.entity = undefined THEN Thrown(g, TypeError)
      ELSE LET old == g.heap[g.entity]
               placed ==
                 IF supportFeature("doublePosition")
                 THEN [old EXCEPT !.position =
                         <<Blocks(pkt.data.x, 1), Blocks(pkt.data.y, 1),
                           Blocks(pkt.data.z, 1)>>]
                 ELSE IF supportFeature("fixedPointPosition")
                 THEN [old EXCEPT !.position =
                         <<Blocks(pkt.data.x, 32), Blocks(pkt.data.y, 32),
                           Blocks(pkt.data.z, 32)>>]
                 ELSE old
               e == [placed EXCEPT !.yaw = decodeNotchianYawByte(pkt.data.yaw),
                                   !.pitch = decodeNotchianPitchByte(pkt.data.pitch)]
               s2 == Write(g, g.entity, e)
           IN  Emitted(s2, Event("entity.teleport", s2, g.entity, pkt))

entity_teleport_step_Spawns(s, pkt) ==
  LET g == getEntity(s, pkt.data.entityId)
  IN  IF g.entity = undefined THEN Thrown(g, TypeError)
      ELSE LET old == g.heap[g.entity]
               placed ==
                 IF supportFeature("fixedPointPosition")
                 THEN [old EXCEPT !.position =
                         <<Blocks(pkt.data.x, 32), Blocks(pkt.data.y, 32),
                           Blocks(pkt.data.z, 32)>>]
                 ELSE IF supportFeature("doublePosition")
                 THEN [old EXCEPT !.position =
                         <<Blocks(pkt.data.x, 1), Blocks(pkt.data.y, 1),
                           Blocks(pkt.data.z, 1)>>]
                 ELSE old
               e == [placed EXCEPT !.yaw = decodeNotchianYawByte(pkt.data.yaw),
                                   !.pitch = decodeNotchianPitchByte(pkt.data.pitch)]
               s2 == Write(g, g.entity, e)
           IN  Emitted(s2, Event("entity.spawn", s2, g.entity, pkt))

entity_teleport_step(s, pkt) ==
  LET g == getEntity(s, pkt.data.entityId)
  IN  IF g.entity = undefined THEN Thrown(g, TypeError)
      ELSE LET old == g.heap[g.entity]
               placed ==
                 IF supportFeature("fixedPointPosition")
                 THEN [old EXCEPT !.position =
                         <<Blocks(pkt.data.x, 32), Blocks(pkt.data.y, 32),
                           Blocks(pkt.data.z, 32)>>]
                 ELSE IF supportFeature("doublePosition")
                 THEN [old EXCEPT !.position =
                         <<Blocks(pkt.data.x, 1), Blocks(pkt.data.y, 1),
                           Blocks(pkt.data.z, 1)>>]
                 ELSE old
               e == [placed EXCEPT !.yaw = decodeNotchianYawByte(pkt.data.yaw),
                                   !.pitch = decodeNotchianPitchByte(pkt.data.pitch)]
               s2 == Write(g, g.entity, e)
           IN  Emitted(s2, Event("entity.teleport", s2, g.entity, pkt))

\* ------------------------------------------------------------ the state
NoPacket == [seq |-> 0, name |-> "none", data |-> [entityId |-> 0]]
NotDone == [pkt |-> NoPacket, result |-> "running", error |-> NoError]
Ended(pkt, result, error) == [pkt |-> pkt, result |-> result, error |-> error]
Packet(name, data) == [seq |-> nextSeq + 1, name |-> name, data |-> data]
Here == Store(entities, heap)
NoAnswer == [query |-> "none", id |-> 0, result |-> <<>>, entities |-> <<>>, heap |-> <<>>]

Init ==
  /\ features \in SUBSET FeatureNames
  /\ entities = <<>>
  /\ heap = <<>>
  /\ frames = {}
  /\ nextSeq = 0
  /\ log = <<>>
  /\ done = NotDone
  /\ pre = [pkt |-> NoPacket, i |-> 0, entities |-> <<>>, heap |-> <<>>]
  /\ answer = NoAnswer

\* The dispatcher hands over the next packet only when no handler is in flight.
CanDispatch_Concurrent == Cardinality(frames) < 2 /\ nextSeq < MaxPackets

CanDispatch == frames = {} /\ nextSeq < MaxPackets

Apply(r) ==
  /\ entities' = r.entities
  /\ heap' = r.heap
  /\ log' = log \o r.events

\* a handler starts: its first step runs, then it is suspended at its await
Begin(pkt, r) ==
  /\ CanDispatch
  /\ nextSeq' = nextSeq + 1
  /\ pre' = [pkt |-> pkt, i |-> 1, entities |-> entities, heap |-> heap]
  /\ Apply(r)
  /\ IF r.error # NoError
     THEN frames' = frames /\ done' = Ended(pkt, "threw", r.error)
     ELSE /\ frames' = frames \cup {[pkt |-> pkt, pc |-> r.events[1].name, i |-> 1]}
          /\ done' = NotDone
  /\ answer' = NoAnswer
  /\ UNCHANGED features

\* a suspended handler goes on after its await: its next step runs
Continue(f, i, r) ==
  /\ pre' = [pkt |-> f.pkt, i |-> i, entities |-> entities, heap |-> heap]
  /\ Apply(r)
  /\ IF r.error # NoError
     THEN frames' = frames \ {f} /\ done' = Ended(f.pkt, "threw", r.error)
     ELSE /\ frames' = (frames \ {f}) \cup {[pkt |-> f.pkt, pc |-> r.events[1].name, i |-> i]}
          /\ done' = NotDone
  /\ answer' = NoAnswer
  /\ UNCHANGED <<features, nextSeq>>

spawn_entity ==
  \E d \in SpawnData :
    LET pkt == Packet("spawn_entity", d) IN Begin(pkt, spawn_entity_step(Here, pkt))

entity_velocity ==
  \E d \in VelocityData :
    LET pkt == Packet("entity_velocity", d) IN Begin(pkt, entity_velocity_step(Here, pkt))

entity_destroy ==
  \E d \in DestroyData :
    LET pkt == Packet("entity_destroy", d)
    IN  IF d.entityIds = <<>>
        THEN /\ CanDispatch
             /\ nextSeq' = nextSeq + 1
             /\ pre' = [pkt |-> pkt, i |-> 0, entities |-> entities, heap |-> heap]
             /\ done' = Ended(pkt, "returned", NoError)
             /\ answer' = NoAnswer
             /\ UNCHANGED <<features, entities, heap, frames, log>>
        ELSE Begin(pkt, entity_destroy_step(Here, pkt, 1))

\* the loop's next round, once the subscribers of the previous id's event are done
entity_destroy_next ==
  \E f \in frames :
    /\ f.pkt.name = "entity_destroy"
    /\ f.i < Len(f.pkt.data.entityIds)
    /\ Continue(f, f.i + 1, entity_destroy_step(Here, f.pkt, f.i + 1))

rel_entity_move ==
  \E d \in MoveData :
    LET pkt == Packet("rel_entity_move", d) IN Begin(pkt, onRelativeEntityMovement(Here, pkt))

entity_look ==
  \E d \in LookData :
    LET pkt == Packet("entity_look", d) IN Begin(pkt, onEntityLook(Here, pkt))

entity_move_look ==
  \E d \in MoveLookData :
    LET pkt == Packet("entity_move_look", d) IN Begin(pkt, onRelativeEntityMovement(Here, pkt))

\* the second half of entity_move_look, once entity.position's subscribers are done
entity_move_look_look ==
  \E f \in frames :
    /\ f.pkt.name = "entity_move_look"
    /\ f.pc = "entity.position"
    /\ Continue(f, 2, onEntityLook(Here, f.pkt))

entity_teleport ==
  \E d \in TeleportData :
    LET pkt == Packet("entity_teleport", d) IN Begin(pkt, entity_teleport_step(Here, pkt))

\* whether the await a handler is suspended at is its last one
LastAwait(f) ==
  CASE f.pkt.name = "entity_destroy" -> f.i = Len(f.pkt.data.entityIds)
    [] f.pkt.name = "entity_move_look" -> f.pc = "entity.look"
    [] OTHER -> TRUE

\* the subscribers of the awaited event are done and the handler returns
handler_returns ==
  \E f \in frames :
    /\ LastAwait(f)
    /\ frames' = frames \ {f}
    /\ done' = Ended(f.pkt, "returned", NoError)
    /\ answer' = NoAnswer
    /\ UNCHANGED <<features, entities, heap, nextSeq, log, pre>>

\* a subscriber of the awaited event fails: the await rethrows, the handler ends
subscriber_throws ==
  \E f \in frames :
    /\ frames' = frames \ {f}
    /\ done' = Ended(f.pkt, "threw", SubscriberError)
    /\ answer' = NoAnswer
    /\ UNCHANGED <<features, entities, heap, nextSeq, log, pre>>

Next ==
  \/ spawn_entity
  \/ entity_velocity
  \/ entity_destroy
  \/ entity_destroy_next
  \/ rel_entity_move
  \/ entity_look
  \/ entity_move_look
  \/ entity_move_look_look
  \/ entity_teleport
  \/ handler_returns
  \/ subscriber_throws

Spec == Init /\ [][Next]_vars

\* ------------------------------------------------------------ the queries
\* A query yields its result and the registry and heap it leaves behind.
getEntityById_Creates(id) ==
  LET g == getEntity(Here, id)
  IN  [entities |-> g.entities, heap |-> g.heap, result |-> <<g.entity>>]

getEntityById(id) ==
  [entities |-> entities, heap |-> heap, result |-> <<MapGet(entities, id)>>]

getEntities ==
  [entities |-> entities, heap |-> heap, result |-> MapValues(entities)]

\* a subscriber, or any other reader, asks for one entity
query_getEntityById ==
  \E id \in Ids :
    LET r == getEntityById(id)
    IN  /\ entities' = r.entities
        /\ heap' = r.heap
        /\ answer' = [query |-> "getEntityById", id |-> id, result |-> r.result,
                      entities |-> entities, heap |-> heap]
        /\ UNCHANGED <<features, frames, nextSeq, log, done, pre>>

\* a subscriber, or any other reader, asks for all entities
query_getEntities ==
  LET r == getEntities
  IN  /\ entities' = r.entities
      /\ heap' = r.heap
      /\ answer' = [query |-> "getEntities", id |-> 0, result |-> r.result,
                    entities |-> entities, heap |-> heap]
      /\ UNCHANGED <<features, frames, nextSeq, log, done, pre>>

\* The queries read no feature flag: the fixed-point protocol stands for all.
InitQueries == Init /\ features = {"fixedPointPosition", "fixedPointDelta"}

NextQueries ==
  \/ Next
  \/ query_getEntityById
  \/ query_getEntities

SpecQueries == InitQueries /\ [][NextQueries]_vars

\* =========================================================== the claims
\* The latest packet is pre.pkt; pre.i is the step of its handler that ran last
\* (the round of a destroy loop, the half of entity_move_look); pre.entities and
\* pre.heap are the registry and the objects as that step found them.
EventsOf(seq) == SelectSeq(log, LAMBDA ev : ev.pkt = seq)
\* the entity the latest step found under id, a fresh one if it found none
OldEntity(id) ==
  IF MapHas(pre.entities, id) THEN pre.heap[MapGet(pre.entities, id)] ELSE NewEntity(id)
Returned == done.pkt = pre.pkt /\ done.result = "returned"
\* the handler itself raised nothing (a subscriber's failure is not its own)
NoHandlerError == done.error \in {NoError, SubscriberError}
\* new = old + raw / divisor blocks, per axis
MovedBy(new, old, raw, divisor) ==
  \A k \in 1..3 : (new[k] - old[k]) * divisor = raw[k] * PosUnit
\* position = raw / divisor blocks, per axis
PlacedAt(position, raw, divisor) ==
  \A k \in 1..3 : position[k] * divisor = raw[k] * PosUnit
YawOf(byte, yaw) == yaw \in 0..(TAU - 1) /\ (yaw + byte - PI) % TAU = 0
PitchOf(byte, pitch) == pitch \in (-PI)..(PI - 1) /\ (pitch + byte) % TAU = 0

\* C1: an entity_velocity packet for an id that is not tracked makes the handler
\* raise the unknown-entity error, leaves the id untracked and emits no event.
C1_VelocityUnknownRaises ==
  (pre.pkt.name = "entity_velocity" /\ ~MapHas(pre.entities, pre.pkt.data.entityId)) =>
    /\ done.pkt = pre.pkt
    /\ done.result = "threw"
    /\ done.error = UnknownEntity
    /\ ~MapHas(entities, pre.pkt.data.entityId)
    /\ EventsOf(pre.pkt.seq) = <<>>

\* C2: once the entity_destroy handler has returned, none of the listed ids is
\* tracked and the packet's events are one entity.destroy per listed id, in the
\* listed order, each carrying an entity with isValid false.
C2_DestroyBatch ==
  (pre.pkt.name = "entity_destroy" /\ Returned) =>
    LET ids == pre.pkt.data.entityIds
        evs == EventsOf(pre.pkt.seq)
    IN  /\ \A i \in DOMAIN ids : ~MapHas(entities, ids[i])
        /\ Len(evs) = Len(ids)
        /\ \A i \in DOMAIN ids :
             /\ evs[i].name = "entity.destroy"
             /\ evs[i].snap.id = ids[i]
             /\ evs[i].snap.isValid = FALSE
             /\ heap[evs[i].entity].id = ids[i]
             /\ heap[evs[i].entity].isValid = FALSE

C2_Witness ==
  /\ pre.pkt.name = "entity_destroy"
  /\ Returned
  /\ pre.pkt.data.entityIds = <<1, 2>>
  /\ EventsOf(pre.pkt.seq)[1].snap.uuid # None

\* C3: packets are handled one at a time: at most one handler is in flight, it is
\* the latest packet's, and events appear in the log in the packets' arrival order.
C3_OneAtATime ==
  /\ Cardinality(frames) <= 1
  /\ \A f \in frames : f.pkt.seq = nextSeq /\ f.pkt = pre.pkt /\ done = NotDone
  /\ pre.pkt.seq = nextSeq
  /\ \A i, j \in DOMAIN log : i < j => log[i].pkt <= log[j].pkt

C3_Witness ==
  /\ nextSeq >= 2
  /\ \E f \in frames :
       /\ f.pkt.name = "entity_destroy"
       /\ f.i = 1
       /\ Len(f.pkt.data.entityIds) = 2
  /\ \E i \in DOMAIN log : log[i].pkt < nextSeq

\* C4: a rel_entity_move, entity_look, entity_move_look, entity_teleport or
\* spawn_entity packet for an untracked id raises nothing: a fresh valid entity
\* is stored under the id and the packet's event is emitted carrying it.
LazyKinds ==
  {"rel_entity_move", "entity_look", "entity_move_look", "entity_teleport", "spawn_entity"}
FirstEvent(name) ==
  CASE name = "spawn_entity" -> "entity.spawn"
    [] name = "entity_look" -> "entity.look"
    [] name = "entity_teleport" -> "entity.teleport"
    [] OTHER -> "entity.position"

C4_LazyCreate ==
  (/\ pre.pkt.name \in LazyKinds
   /\ pre.i = 1
   /\ ~MapHas(pre.entities, pre.pkt.data.entityId)) =>
    LET id == pre.pkt.data.entityId
        ref == MapGet(entities, id)
        evs == EventsOf(pre.pkt.seq)
    IN  /\ NoHandlerError
        /\ ref # undefined
        /\ ref = Len(pre.heap) + 1
        /\ Len(heap) = Len(pre.heap) + 1
        /\ heap[ref].id = id
        /\ heap[ref].isValid
        /\ Len(evs) = 1
        /\ evs[1].name = FirstEvent(pre.pkt.name)
        /\ evs[1].entity = ref
        /\ pre.pkt.name # "spawn_entity" =>
             /\ heap[ref].uuid = None
             /\ heap[ref].entityType = None
             /\ heap[ref].velocity = <<0, 0, 0>>

C4_Witness ==
  /\ pre.pkt.name = "rel_entity_move"
  /\ ~MapHas(pre.entities, pre.pkt.data.entityId)
  /\ pre.entities # <<>>
  /\ Returned
  /\ heap[MapGet(entities, pre.pkt.data.entityId)] # NewEntity(pre.pkt.data.entityId)

\* C5: entity_move_look emits entity.position, then entity.look, once each and for
\* the same packet; the delta is applied when entity.position is emitted, yaw and
\* pitch are untouched until its subscribers are done and set when entity.look is
\* emitted.
C5_MoveLook ==
  pre.pkt.name = "entity_move_look" =>
    LET d == pre.pkt.data
        evs == EventsOf(pre.pkt.seq)
        old == OldEntity(d.entityId)
    IN  /\ pre.i \in {1, 2}
        /\ Len(evs) = pre.i
        /\ evs[1].name = "entity.position"
        /\ pre.i = 1 =>
             /\ MovedBy(evs[1].snap.position, old.position, <<d.dX, d.dY, d.dZ>>,
                        IF supportFeature("fixedPointDelta") THEN 32 ELSE 128 * 32)
             /\ evs[1].snap.yaw = old.yaw
             /\ evs[1].snap.pitch = old.pitch
             /\ heap[evs[1].entity] = evs[1].snap
             /\ ~Returned
        /\ pre.i = 2 =>
             /\ evs[2].name = "entity.look"
             /\ evs[2].entity = evs[1].entity
             /\ evs[1].snap = old
             /\ evs[2].snap.position = old.position
             /\ YawOf(d.yaw, evs[2].snap.yaw)
             /\ PitchOf(d.pitch, evs[2].snap.pitch)
        /\ Returned => pre.i = 2

C5_Witness ==
  /\ pre.pkt.name = "entity_move_look"
  /\ Returned
  /\ Len(EventsOf(pre.pkt.seq)) = 2
  /\ EventsOf(pre.pkt.seq)[1].snap.yaw # EventsOf(pre.pkt.seq)[2].snap.yaw
  /\ nextSeq >= 2

\* C6: a relative move adds the scaled delta to the old position: raw / 32 with
\* fixedPointDelta, raw / (128 * 32) without; raw (320, 0, -320) moves the entity
\* by (10, 0, -10) blocks with it and by (10/128, 0, -10/128) without.
C6_RelativeMove ==
  (pre.pkt.name \in {"rel_entity_move", "entity_move_look"} /\ pre.i = 1) =>
    LET d == pre.pkt.data
        evs == EventsOf(pre.pkt.seq)
        old == OldEntity(d.entityId).position
        new == evs[1].snap.position
    IN  /\ Len(evs) = 1
        /\ evs[1].name = "entity.position"
        /\ heap[evs[1].entity].position = new
        /\ MovedBy(new, old, <<d.dX, d.dY, d.dZ>>,
                   IF "fixedPointDelta" \in features THEN 32 ELSE 128 * 32)
        /\ (<<d.dX, d.dY, d.dZ>> = <<320, 0, -320>> /\ "fixedPointDelta" \in features) =>
             new = <<old[1] + 10 * PosUnit, old[2], old[3] - 10 * PosUnit>>
        /\ (<<d.dX, d.dY, d.dZ>> = <<320, 0, -320>> /\ "fixedPointDelta" \notin features) =>
             /\ 128 * (new[1] - old[1]) = 10 * PosUnit
             /\ new[2] = old[2]
             /\ 128 * (new[3] - old[3]) = -10 * PosUnit

C6_Witness ==
  /\ pre.pkt.name = "rel_entity_move"
  /\ pre.i = 1
  /\ pre.pkt.data.dX = 320
  /\ "fixedPointDelta" \in features
  /\ OldEntity(pre.pkt.data.entityId).position # <<0, 0, 0>>
  /\ Returned

\* C7: entity_teleport sets position to raw / 32 with fixedPointPosition, to raw
\* with doublePosition alone, and leaves it as it was with neither; in each case
\* yaw and pitch are set from the packet, one entity.teleport event is emitted and
\* the handler raises nothing.
C7_Teleport ==
  pre.pkt.name = "entity_teleport" =>
    LET d == pre.pkt.data
        evs == EventsOf(pre.pkt.seq)
        old == OldEntity(d.entityId)
        raw == <<d.x, d.y, d.z>>
    IN  /\ NoHandlerError
        /\ Len(evs) = 1
        /\ evs[1].name = "entity.teleport"
        /\ heap[evs[1].entity] = evs[1].snap
        /\ "fixedPointPosition" \in features => PlacedAt(evs[1].snap.position, raw, 32)
        /\ ("fixedPointPosition" \notin features /\ "doublePosition" \in features) =>
             PlacedAt(evs[1].snap.position, raw, 1)
        /\ ("fixedPointPosition" \notin features /\ "doublePosition" \notin features) =>
             evs[1].snap.position = old.position
        /\ YawOf(d.yaw, evs[1].snap.yaw)
        /\ PitchOf(d.pitch, evs[1].snap.pitch)

C7_Witness ==
  /\ pre.pkt.name = "entity_teleport"
  /\ Returned
  /\ "fixedPointPosition" \notin features
  /\ "doublePosition" \notin features
  /\ OldEntity(pre.pkt.data.entityId).position # <<0, 0, 0>>
  /\ OldEntity(pre.pkt.data.entityId).yaw # heap[MapGet(entities, pre.pkt.data.entityId)].yaw

\* C8: a spawn_entity packet whose type code T is not in the type registry does
\* not fail: the tracked entity has name "unknown", type "other", entityType T and
\* the packet's uuid, and entity.spawn is emitted for it.
C8_SpawnUnknownType ==
  (pre.pkt.name = "spawn_entity" /\ pre.pkt.data.type \notin DOMAIN registry_entities) =>
    LET d == pre.pkt.data
        ref == MapGet(entities, d.entityId)
        evs == EventsOf(pre.pkt.seq)
    IN  /\ NoHandlerError
        /\ ref # undefined
        /\ heap[ref].name = Some("unknown")
        /\ heap[ref].type = Some("other")
        /\ heap[ref].entityType = Some(d.type)
        /\ heap[ref].uuid = Some(d.objectUUID)
        /\ Len(evs) = 1
        /\ evs[1].name = "entity.spawn"
        /\ evs[1].entity = ref
        /\ evs[1].snap = heap[ref]

C8_Witness ==
  /\ pre.pkt.name = "spawn_entity"
  /\ pre.pkt.data.type = UnknownType
  /\ Returned
  /\ OldEntity(pre.pkt.data.entityId).entityType = Some(KnownType)
  /\ heap[MapGet(entities, pre.pkt.data.entityId)].entityType = Some(UnknownType)

\* C9: every stored yaw lies in [0, TAU) and every stored pitch in [-PI, PI), in
\* every entity and in every entity an event carried, whatever integer bytes the
\* packets held; the byte decoders stay in range on -MaxByte..MaxByte.
DecodersInRange ==
  \A b \in (-MaxByte)..MaxByte :
    /\ YawOf(b, decodeNotchianYawByte(b))
    /\ PitchOf(b, decodeNotchianPitchByte(b))

C9_AnglesNormalized ==
  /\ DecodersInRange
  /\ \A r \in DOMAIN heap :
       /\ heap[r].yaw \in 0..(TAU - 1)
       /\ heap[r].pitch \in (-PI)..(PI - 1)
  /\ \A i \in DOMAIN log :
       /\ log[i].snap.yaw \in 0..(TAU - 1)
       /\ log[i].snap.pitch \in (-PI)..(PI - 1)

C9_Witness ==
  /\ pre.pkt.name = "entity_teleport"
  /\ pre.pkt.data.yaw = 255
  /\ pre.pkt.data.pitch = 300
  /\ Returned
  /\ heap[MapGet(entities, pre.pkt.data.entityId)].yaw = 129
  /\ heap[MapGet(entities, pre.pkt.data.entityId)].pitch = -44
  /\ \E i \in DOMAIN log : log[i].name = "entity.look" /\ log[i].snap.yaw = 129

\* C10: a round of the destroy loop on an id that is not tracked leaves the
\* registry as it was: the same ids under the same objects, those objects
\* unchanged, every tracked object valid and stored under its own id.
C10_DestroyAbsent ==
  (/\ pre.pkt.name = "entity_destroy"
   /\ pre.i >= 1
   /\ ~MapHas(pre.entities, pre.pkt.data.entityIds[pre.i])) =>
    /\ entities = pre.entities
    /\ \A r \in DOMAIN pre.heap : heap[r] = pre.heap[r]
    /\ \A i \in DOMAIN entities :
         /\ heap[entities[i].val].isValid
         /\ heap[entities[i].val].id = entities[i].key

C10_Witness ==
  /\ pre.pkt.name = "entity_destroy"
  /\ pre.i = 2
  /\ pre.pkt.data.entityIds[1] = pre.pkt.data.entityIds[2]
  /\ ~MapHas(pre.entities, pre.pkt.data.entityIds[2])
  /\ pre.entities # <<>>
  /\ Returned

\* C11: getEntityById and getEntities leave the registry and every entity as they
\* found them; getEntityById(id) returns the object tracked under id, undefined
\* for an untracked id, and getEntities returns exactly the tracked objects.
C11_QueriesRead ==
  answer.query # "none" =>
    /\ entities = answer.entities
    /\ heap = answer.heap
    /\ answer.query = "getEntityById" =>
         /\ Len(answer.result) = 1
         /\ \A i \in DOMAIN entities :
              entities[i].key = answer.id => answer.result[1] = entities[i].val
         /\ (\A i \in DOMAIN entities : entities[i].key # answer.id) =>
              answer.result[1] = undefined
    /\ answer.query = "getEntities" =>
         /\ Len(answer.result) = Len(entities)
         /\ \A i \in DOMAIN entities : answer.result[i] = entities[i].val

C11_Witness ==
  /\ answer.query = "getEntityById"
  /\ entities # <<>>
  /\ \A i \in DOMAIN entities : entities[i].key # answer.id
  /\ answer.result = <<undefined>>

\* the id the latest step is about
NamedId ==
  IF pre.pkt.name = "entity_destroy" THEN pre.pkt.data.entityIds[pre.i]
  ELSE pre.pkt.data.entityId
\* velocity = raw / 8000 blocks per second, per axis
VelocityOf(velocity, raw) == \A k \in 1..3 : velocity[k] * 8000 = raw[k] * VelUnit

\* C12: every entity.destroy event carries the object that was tracked under its
\* id when that id's round of the loop began, never an object that was not tracked.
C12_DestroyCarriesPrior ==
  (/\ pre.pkt.name = "entity_destroy"
   /\ pre.i >= 1
   /\ Len(EventsOf(pre.pkt.seq)) >= pre.i) =>
    LET ev == EventsOf(pre.pkt.seq)[pre.i]
    IN  /\ MapHas(pre.entities, NamedId)
        /\ ev.entity = MapGet(pre.entities, NamedId)
        /\ ev.entity \in DOMAIN pre.heap

\* C13: an object is tracked exactly when it is valid; the registry holds one
\* object per id, under the object's own id; validity is lost only in a destroy
\* step and for good: an invalid object is never written again, never tracked
\* again, and its id is next tracked by a newer object.
C13_Lifecycle ==
  /\ \A r \in DOMAIN heap :
       heap[r].isValid <=> (\E i \in DOMAIN entities : entities[i].val = r)
  /\ \A i, j \in DOMAIN entities :
       (entities[i].key = entities[j].key \/ entities[i].val = entities[j].val) => i = j
  /\ \A i \in DOMAIN entities :
       /\ entities[i].val \in DOMAIN heap
       /\ heap[entities[i].val].id = entities[i].key
  /\ Len(heap) >= Len(pre.heap)
  /\ \A r \in DOMAIN pre.heap :
       /\ ~pre.heap[r].isValid => heap[r] = pre.heap[r]
       /\ (pre.heap[r].isValid /\ ~heap[r].isValid) =>
            (pre.pkt.name = "entity_destroy" /\ heap[r].id = NamedId)
  /\ \A r \in DOMAIN heap :
       (r \notin DOMAIN pre.heap /\ ~heap[r].isValid) => pre.pkt.name = "entity_destroy"
  /\ \A r \in DOMAIN heap : \A i \in DOMAIN entities :
       (~heap[r].isValid /\ heap[r].id = entities[i].key) => entities[i].val > r

C13_Witness ==
  /\ pre.pkt.name = "rel_entity_move"
  /\ Returned
  /\ \E r \in DOMAIN pre.heap :
       /\ ~pre.heap[r].isValid
       /\ pre.heap[r].id = NamedId
       /\ MapGet(entities, NamedId) > r
       /\ heap[MapGet(entities, NamedId)].isValid

\* C14: spawn's pose: position is raw / 32 with fixedPointPosition (also when
\* doublePosition is active too), raw with doublePosition alone, untouched with
\* neither; yaw, pitch and the three velocity components (raw / 8000) are set
\* from the packet in every case.
C14_SpawnPose ==
  pre.pkt.name = "spawn_entity" =>
    LET d == pre.pkt.data
        evs == EventsOf(pre.pkt.seq)
        old == OldEntity(d.entityId)
        e == heap[MapGet(entities, d.entityId)]
        raw == <<d.x, d.y, d.z>>
    IN  /\ Len(evs) = 1
        /\ evs[1].snap = e
        /\ "fixedPointPosition" \in features => PlacedAt(e.position, raw, 32)
        /\ ("fixedPointPosition" \notin features /\ "doublePosition" \in features) =>
             PlacedAt(e.position, raw, 1)
        /\ ("fixedPointPosition" \notin features /\ "doublePosition" \notin features) =>
             e.position = old.position
        /\ YawOf(d.yaw, e.yaw)
        /\ PitchOf(d.pitch, e.pitch)
        /\ VelocityOf(e.velocity, <<d.velocityX, d.velocityY, d.velocityZ>>)

C14_Witness ==
  /\ pre.pkt.name = "spawn_entity"
  /\ Returned
  /\ {"fixedPointPosition", "doublePosition"} \subseteq features
  /\ pre.pkt.data.x = 320
  /\ heap[MapGet(entities, pre.pkt.data.entityId)].position[1] = 10 * PosUnit
  /\ OldEntity(pre.pkt.data.entityId).velocity # <<0, 0, 0>>
  /\ OldEntity(pre.pkt.data.entityId).velocity #
       heap[MapGet(entities, pre.pkt.data.entityId)].velocity

\* C15: an event is emitted after its packet's write: the entity a subscriber of
\* entity.spawn, .velocity, .position, .look or .teleport receives holds the
\* decoded state and is what getEntityById returns for its id; the entity a
\* subscriber of entity.destroy receives is invalid and no longer returned.
C15_EmitAfterWrite ==
  /\ \A i \in DOMAIN log :
       IF log[i].name = "entity.destroy"
       THEN ~log[i].snap.isValid /\ log[i].lookup # log[i].entity
       ELSE log[i].snap.isValid /\ log[i].lookup = log[i].entity
  /\ \A f \in frames :
       LET ev == log[Len(log)]
           d == f.pkt.data
       IN  /\ ev.pkt = f.pkt.seq
           /\ ev.name = f.pc
           /\ heap[ev.entity] = ev.snap
           /\ MapGet(entities, ev.snap.id) = ev.lookup
           /\ f.pc = "entity.spawn" =>
                /\ ev.snap.uuid = Some(d.objectUUID)
                /\ YawOf(d.yaw, ev.snap.yaw)
                /\ VelocityOf(ev.snap.velocity, <<d.velocityX, d.velocityY, d.velocityZ>>)
           /\ f.pc = "entity.velocity" =>
                VelocityOf(ev.snap.velocity, <<d.velocityX, d.velocityY, d.velocityZ>>)
           /\ f.pc = "entity.position" =>
                MovedBy(ev.snap.position, OldEntity(d.entityId).position,
                        <<d.dX, d.dY, d.dZ>>,
                        IF "fixedPointDelta" \in features THEN 32 ELSE 128 * 32)
           /\ f.pc \in {"entity.look", "entity.teleport"} =>
                /\ YawOf(d.yaw, ev.snap.yaw)
                /\ PitchOf(d.pitch, ev.snap.pitch)

C15_Witness ==
  /\ nextSeq >= 2
  /\ \E f \in frames :
       /\ f.pc = "entity.look"
       /\ f.pkt.name = "entity_look"
       /\ log[Len(log)].snap.yaw # OldEntity(f.pkt.data.entityId).yaw
       /\ log[Len(log)].snap.uuid # None
  /\ \E i \in DOMAIN log : log[i].name = "entity.spawn"

\* C16: after a spawn_entity packet whose type code is not in the type registry
\* the entity's height and width are absent, also when the id was spawned before
\* with a resolved type.
C16_UnresolvedHasNoBox ==
  (pre.pkt.name = "spawn_entity" /\ pre.pkt.data.type \notin DOMAIN registry_entities) =>
    LET e == heap[MapGet(entities, pre.pkt.data.entityId)]
    IN  e.height = None /\ e.width = None

\* C17: a spawn_entity packet emits entity.spawn once and no other packet emits
\* it: an entity a move, look, move+look or teleport packet created is tracked
\* and no entity.spawn event carries it.
SpawnEvents(evs) == SelectSeq(evs, LAMBDA ev : ev.name = "entity.spawn")

C17_SpawnOnlyBySpawn ==
  /\ Len(SpawnEvents(EventsOf(pre.pkt.seq))) =
       (IF pre.pkt.name = "spawn_entity" THEN 1 ELSE 0)
  /\ (/\ pre.pkt.name \in LazyKinds \ {"spawn_entity"}
      /\ pre.i = 1
      /\ ~MapHas(pre.entities, pre.pkt.data.entityId)) =>
       LET ref == MapGet(entities, pre.pkt.data.entityId)
       IN  /\ ref # undefined
           /\ ref \notin DOMAIN pre.heap
           /\ \A i \in DOMAIN log : log[i].name = "entity.spawn" => log[i].entity # ref

C17_Witness ==
  /\ pre.pkt.name = "entity_teleport"
  /\ pre.i = 1
  /\ ~MapHas(pre.entities, pre.pkt.data.entityId)
  /\ MapHas(entities, pre.pkt.data.entityId)
  /\ Returned
  /\ Len(SpawnEvents(log)) = 1

\* C18: a step writes only the entity it names: every other id stays tracked or
\* untracked as it was, under the same unchanged object; in the named entity a
\* look leaves position and velocity, a relative move leaves yaw, pitch and
\* velocity, and a velocity packet leaves position, yaw and pitch as they were.
C18_OnlyTheNamedId ==
  pre.i >= 1 =>
    LET new == heap[log[Len(log)].entity]
        old == OldEntity(NamedId)
        looked == pre.pkt.name = "entity_look" \/ (pre.pkt.name = "entity_move_look" /\ pre.i = 2)
        moved == pre.pkt.name = "rel_entity_move" \/ (pre.pkt.name = "entity_move_look" /\ pre.i = 1)
    IN  /\ \A i \in DOMAIN pre.entities :
             pre.entities[i].key # NamedId =>
               /\ MapGet(entities, pre.entities[i].key) = pre.entities[i].val
               /\ heap[pre.entities[i].val] = pre.heap[pre.entities[i].val]
        /\ \A i \in DOMAIN entities :
             entities[i].key # NamedId => MapHas(pre.entities, entities[i].key)
        /\ \A r \in DOMAIN pre.heap : pre.heap[r].id # NamedId => heap[r] = pre.heap[r]
        /\ looked => (new.position = old.position /\ new.velocity = old.velocity)
        /\ moved =>
             (new.yaw = old.yaw /\ new.pitch = old.pitch /\ new.velocity = old.velocity)
        /\ pre.pkt.name = "entity_velocity" =>
             (new.position = old.position /\ new.yaw = old.yaw /\ new.pitch = old.pitch)

C18_Witness ==
  /\ pre.pkt.name = "entity_destroy"
  /\ pre.pkt.data.entityIds = <<1>>
  /\ Returned
  /\ MapHas(pre.entities, 2)
  /\ MapHas(entities, 2)
  /\ heap[MapGet(entities, 2)].uuid # None

\* C19: a failing subscriber ends the handler where it stands and nothing is
\* undone: in a destroy batch whose k-th event's subscriber fails, ids 1..k are
\* invalid and untracked, k events were emitted, and the later ids stay tracked,
\* valid and unannounced; in entity_move_look, when entity.position's subscriber
\* fails, the delta stays applied, yaw and pitch are as before, and no
\* entity.look is emitted.
C19_FailureAbortsNoRollback ==
  (done.pkt = pre.pkt /\ done.result = "threw" /\ done.error = SubscriberError) =>
    LET evs == EventsOf(pre.pkt.seq)
        d == pre.pkt.data
    IN  /\ frames = {}
        /\ Len(evs) = pre.i
        /\ pre.pkt.name = "entity_destroy" =>
             /\ \A j \in 1..pre.i :
                  /\ ~MapHas(entities, d.entityIds[j])
                  /\ ~heap[evs[j].entity].isValid
             /\ \A j \in (pre.i + 1)..Len(d.entityIds) :
                  (/\ MapHas(pre.entities, d.entityIds[j])
                   /\ \A k \in 1..pre.i : d.entityIds[k] # d.entityIds[j]) =>
                    LET ref == MapGet(pre.entities, d.entityIds[j])
                    IN  /\ MapGet(entities, d.entityIds[j]) = ref
                        /\ heap[ref].isValid
                        /\ heap[ref] = pre.heap[ref]
                        /\ \A i \in DOMAIN log :
                             log[i].name = "entity.destroy" => log[i].entity # ref
        /\ (pre.pkt.name = "entity_move_look" /\ pre.i = 1) =>
             LET old == OldEntity(d.entityId)
                 e == heap[MapGet(entities, d.entityId)]
             IN  /\ evs[1].name = "entity.position"
                 /\ MovedBy(e.position, old.position, <<d.dX, d.dY, d.dZ>>,
                            IF "fixedPointDelta" \in features THEN 32 ELSE 128 * 32)
                 /\ e.yaw = old.yaw
                 /\ e.pitch = old.pitch

C19_Witness ==
  /\ done.pkt = pre.pkt
  /\ done.result = "threw"
  /\ done.error = SubscriberError
  /\ pre.pkt.name = "entity_destroy"
  /\ pre.pkt.data.entityIds = <<1, 2>>
  /\ pre.i = 1
  /\ MapHas(entities, 2)
  /\ heap[MapGet(entities, 2)].isValid
  /\ heap[MapGet(entities, 2)].uuid # None

====
